---- MODULE Spec2Model ----
(***************************************************************************)
(* SLAG commenting service (main.py): one JSON file per comment, one index *)
(* file per target, one flag file per comment and one snapshot file.       *)
(* Every request handler is modelled as the sequence of file operations it *)
(* performs (exists+read, open("w") which truncates, dump+close which      *)
(* stores the document); handlers of different worker processes interleave *)
(* at these file operations.                                               *)
(*                                                                         *)
(* Strings that the code takes apart (ids, URLs, file names) are sequences  *)
(* of characters or longer tokens.  A file's content is a sequence holding *)
(* zero documents (the file was opened for writing and nothing is flushed  *)
(* yet), one document, or one document followed by the tail of a longer    *)
(* one that another writer had flushed in the meantime.                    *)
(***************************************************************************)
EXTENDS Naturals, Sequences, FiniteSets, TLC

\* ------------------------------------------------------------------ bounds
\* Number of comment ids (ULIDs) the generator can hand out.
MaxComments == 2

\* Number of requests the workers accept in one run, of any kind.
MaxRequests == 3

\* Number of requests accepted in a run of creates, replies and rebuilds only.
MaxIndexRequests == 4

\* ULID strings: one token each, ordered like the strings are.
Ids == {<<n>> : n \in 1..MaxComments}

\* Worker processes serving requests.
Workers == {"w1", "w2"}

\* Target identifiers clients use in /comments/{target_id}: a plain one and
\* one with a space (sent as /comments/a%20b, decoded by the server).
TargetIds == { <<"p">>, <<"a", " ", "b">> }

\* ------------------------------------------------------------- settings
COMMENTS_BASE_URL == "https://slag.example.com/comments"

TARGET_BASE_URL == <<"https:", "/", "/", "example.com">>

\* ---------------------------------------------------------- pure helpers
RECURSIVE Flatten(_)
Flatten(ss) == IF ss = <<>> THEN <<>> ELSE Head(ss) \o Flatten(Tail(ss))

\* Path component percent-encoding done by the URL parser behind HttpUrl.
PercentEncode(c) == IF c = " " THEN <<"%", "2", "0">> ELSE <<c>>

\* pydantic HttpUrl validation + str(): the normalised URL.
HttpUrl(s) == Flatten([i \in 1..Len(s) |-> PercentEncode(s[i])])

\* f"{settings.TARGET_BASE_URL}/{target_id}" validated as HttpUrl.
TargetUrl(target_id) == HttpUrl(TARGET_BASE_URL \o <<"/">> \o target_id)

\* s.rsplit("/", 1)[-1]
RSplitLast(s) ==
    LET slashes == {i \in 1..Len(s) : s[i] = "/"}
        last == IF slashes = {} THEN 0
                ELSE CHOOSE i \in slashes : \A j \in slashes : j <= i
    IN SubSeq(s, last + 1, Len(s))

\* f"{settings.COMMENTS_BASE_URL}/{cid}"
CommentUrl(cid) == <<COMMENTS_BASE_URL, "/">> \o cid

\* File names: f"{new_id}.jsonld", f"{target_id}.index.json",
\* f"{ulid_id}.flags.json"; each suffix is one token.
CommentFile(ulid_id) == ulid_id \o <<".jsonld">>

IndexFile(target_id) == target_id \o <<".index", ".json">>

FlagFile(ulid_id) == ulid_id \o <<".flags", ".json">>

SNAPSHOT_FILE == <<"snapshot", ".json">>

\* Path.stem: the name without its final suffix (and only that one).
PathStem(f) == SubSeq(f, 1, Len(f) - 1)

\* sorted(ulid_list)
RECURSIVE InsertSorted(_, _)
InsertSorted(x, s) ==
    IF s = <<>> THEN <<x>>
    ELSE IF x[1] <= Head(s)[1] THEN <<x>> \o s
    ELSE <<Head(s)>> \o InsertSorted(x, Tail(s))

\* A bug Sorted could have: the scan order is kept.
Sorted_ScanOrder(s) == s

RECURSIVE Sorted(_)
Sorted(s) == IF s = <<>> THEN <<>> ELSE InsertSorted(Head(s), Sorted(Tail(s)))

Range(s) == {s[i] : i \in 1..Len(s)}

\* now_dt.isoformat(timespec='microseconds').replace('+00:00', 'Z')
IsoFormatZ(now_dt) == <<now_dt, "Z">>

\* A file opened with open("w") and not yet written and closed.
Truncated == <<>>

\* A file holding one JSON document.
Stored(doc) == <<doc>>

\* json.load succeeds: the file holds one document and nothing after it.
Parses(content) == Len(content) = 1

\* ---------------------------------------------------------- document sizes
\* len(str(ULID()))
UlidChars == 26

\* len(now_dt.isoformat(timespec='microseconds').replace('+00:00', 'Z'))
IsoChars == 27

\* len(s) of a string kept as a sequence of string tokens
RECURSIVE Chars(_)
Chars(s) == IF s = <<>> THEN 0 ELSE Len(Head(s)) + Chars(Tail(s))

\* sum(sizes.values())
RECURSIVE SumOf(_)
SumOf(sizes) ==
    IF DOMAIN sizes = {} THEN 0
    ELSE LET k == CHOOSE x \in DOMAIN sizes : TRUE
         IN sizes[k] + SumOf([x \in DOMAIN sizes \ {k} |-> sizes[x]])

\* Characters json.dump writes for a string of that many characters.
JsonString(chars) == chars + 2

\* json.dump(..., indent=2): one '"key": value' member of an object nested
\* level deep, with its indentation and its share of the separators.
JsonMember(level, key_chars, value_size) == 2 * level + 8 + key_chars + value_size

\* json.dump(..., indent=2): one element of an array nested level deep.
JsonElement(level, value_size) == 2 * level + 4 + value_size

\* json.dump(..., indent=2): an object or array of n members nested level
\* deep, items being the sum of the members' sizes; '{}' or '[]' when empty.
JsonBlock(level, n, items) == IF n = 0 THEN 2 ELSE 2 + 2 * level + items

\* Characters of json.dump(comment_data, f, indent=2).
RecordSize(comment_data) ==
    LET comment_url == JsonString(Len(COMMENTS_BASE_URL) + 1 + UlidChars)
        actor == comment_data.attributedTo
    IN JsonBlock(0, 7,
          JsonMember(0, Len("type"), JsonString(Len(comment_data.type)))
        + JsonMember(0, Len("id"), comment_url)
        + JsonMember(0, Len("content"), JsonString(Len(comment_data.content)))
        + JsonMember(0, Len("published"), JsonString(IsoChars))
        + JsonMember(0, Len("attributedTo"),
              JsonBlock(1, 3,
                  JsonMember(1, Len("id"), JsonString(Chars(actor.id)))
                + JsonMember(1, Len("name"), JsonString(Len(actor.name)))
                + JsonMember(1, Len("type"), JsonString(Len(actor.type)))))
        + JsonMember(0, Len("inReplyTo"),
              IF comment_data.inReplyTo = <<>> THEN Len("null") ELSE comment_url)
        + JsonMember(0, Len("target"), JsonString(Chars(comment_data.target))))

\* Characters of json.dump(comment_ids, f): no indent, ', ' between items.
IndexSize(comment_ids) ==
    IF comment_ids = <<>> THEN 2
    ELSE 2 + Len(comment_ids) * JsonString(UlidChars) + 2 * (Len(comment_ids) - 1)

\* Characters of a flag mapping dumped with indent=2, nested level deep.
FlagsJson(level, updated_flags) ==
    JsonBlock(level, Cardinality(DOMAIN updated_flags),
              SumOf([k \in DOMAIN updated_flags |->
                        JsonMember(level, Len(k), Len(updated_flags[k]))]))

\* Characters of json.dump(updated_flags, f, indent=2).
FlagsSize(updated_flags) == FlagsJson(0, updated_flags)

\* Characters of json.dump(snapshot_data, f, indent=2, sort_keys=True).
SnapshotSize(snapshot_data) ==
    LET indexes == snapshot_data.indexes
        flag_sets == snapshot_data.flags
        ids(k) == JsonBlock(2, Len(indexes[k]),
                            Len(indexes[k]) * JsonElement(2, JsonString(UlidChars)))
    IN JsonBlock(0, 2,
          JsonMember(0, Len("flags"),
              JsonBlock(1, Cardinality(DOMAIN flag_sets),
                  SumOf([k \in DOMAIN flag_sets |->
                            JsonMember(1, UlidChars + Len(".flags"),
                                       FlagsJson(2, flag_sets[k]))])))
        + JsonMember(0, Len("indexes"),
              JsonBlock(1, Cardinality(DOMAIN indexes),
                  SumOf([k \in DOMAIN indexes |->
                            JsonMember(1, Chars(k), ids(k))]))))

\* json.dump into a file opened with open("w") and close: the document is
\* written from offset 0 over what the file holds by now.  The file was
\* emptied by open("w"); when another writer has flushed a longer document
\* since, the tail of that document stays behind the new one.
Overwrite(content, doc, doc_size, held_size) ==
    IF content = <<>> \/ doc_size >= held_size
    THEN Stored(doc)
    ELSE <<doc, content[Len(content)]>>

\* with comment_file.open("w") as f: json.dump(comment_data, f, indent=2)
WriteRecord(content, comment_data) ==
    Overwrite(content, comment_data, RecordSize(comment_data),
              IF content = <<>> THEN 0 ELSE RecordSize(content[Len(content)]))

\* with index_file.open("w") as f: json.dump(comment_ids, f)
WriteIndex(content, comment_ids) ==
    Overwrite(content, comment_ids, IndexSize(comment_ids),
              IF content = <<>> THEN 0 ELSE IndexSize(content[Len(content)]))

\* with flag_file.open("w") as f: json.dump(updated_flags, f, indent=2)
WriteFlags(content, updated_flags) ==
    Overwrite(content, updated_flags, FlagsSize(updated_flags),
              IF content = <<>> THEN 0 ELSE FlagsSize(content[Len(content)]))

\* with SNAPSHOT_FILE.open("w") as f: json.dump(snapshot_data, f, ...)
WriteSnapshot(content, snapshot_data) ==
    Overwrite(content, snapshot_data, SnapshotSize(snapshot_data),
              IF content = <<>> THEN 0 ELSE SnapshotSize(content[Len(content)]))

\* dict.setdefault / item assignment on a mapping
Put(m, k, v) == [x \in DOMAIN m \cup {k} |-> IF x = k THEN v ELSE m[x]]

EmptyMap == [x \in {} |-> x]

\* ------------------------------------------------------------ request data
NoneValue == <<>>

Actors ==
    { [id |-> <<"http:", "/", "/", "example.com", "/", "users", "/", "alice">>,
       name |-> "Alice", type |-> "Person"],
      [id |-> <<"http:", "/", "/", "example.com", "/", "users", "/", "bob">>,
       name |-> "Bob", type |-> "Service"] }

\* CommentInput bodies.
CommentInputs ==
    { [content |-> "hello", attributedTo |-> a] : a \in {x \in Actors : x.name = "Alice"} }
    \cup
    { [content |-> "hello again", attributedTo |-> a] : a \in {x \in Actors : x.name = "Bob"} }

\* Actor.model_dump(mode='json')
ActorDump(actor) == [id |-> HttpUrl(actor.id), name |-> actor.name, type |-> actor.type]

\* CommentNote(...).model_dump(mode='json') with 'published' overridden by the
\* Z-suffixed timestamp.
CommentData(new_id, input, now_dt, in_reply_to, target_url) ==
    [type |-> "Note",
     id |-> CommentUrl(new_id),
     content |-> input.content,
     published |-> IsoFormatZ(now_dt),
     attributedTo |-> ActorDump(input.attributedTo),
     inReplyTo |-> in_reply_to,
     target |-> target_url]

\* The closed set of flag names of FlagUpdate.
FlagNames == {"hidden", "moderated", "reported", "deleted"}

FlagValues == {"true", "false", "null"}

AllNull == [k \in FlagNames |-> "null"]

\* JSON bodies sent to PATCH /comment/{id}/flags.
FlagBodies ==
    { [AllNull EXCEPT !["hidden"] = "true"],
      [AllNull EXCEPT !["hidden"] = "false", !["moderated"] = "true"],
      [k \in {"hidden"} |-> "true"] }

\* FlagUpdate validation: the four fields are Optional[bool] without a
\* default, so each must be present (null allowed).
ValidFlagUpdate(body) ==
    /\ DOMAIN body = FlagNames
    /\ \A k \in DOMAIN body : body[k] \in FlagValues

\* {**existing_flags, **{k: v for k, v in flags.model_dump().items() if v is not None}}
MergeFlags(existing_flags, flags_dump) ==
    LET set == {k \in DOMAIN flags_dump : flags_dump[k] /= "null"}
    IN [k \in DOMAIN existing_flags \cup set |->
            IF k \in set THEN flags_dump[k] ELSE existing_flags[k]]

\* A bug AppendId could have: the new id is put in front.
AppendId_Prepend(comment_ids, new_id) == <<new_id>> \o comment_ids

\* comment_ids.append(new_id)
AppendId(comment_ids, new_id) == Append(comment_ids, new_id)

\* ------------------------------------------------------------------- state
VARIABLES
    comments,    \* COMMENTS_DIR: file name -> content
    targets,     \* TARGETS_DIR: file name -> content
    flags,       \* FLAGS_DIR: file name -> content
    snapshots,   \* DATA_DIR: SNAPSHOT_FILE -> content (once written)
    clock,       \* datetime.now
    req,         \* per worker: the handler it runs, its position and locals
    accepted,    \* number of requests accepted so far
    budget,      \* number of requests this run accepts
    response,    \* the response just sent (cleared by the next step)
    before,      \* history: the files as the latest request found them, kept
                 \* when no other request was in flight (a solo request)
    serial,      \* history: no two requests overlapped, no reply, no rebuild
    createdUnder,\* history, while serial: target id -> ids created, in order
    outcome,     \* history: comment id -> status its create or reply returned
    seen,        \* history: the index and flag files as they were at each
                 \* moment since the snapshot now running began
    rebuildFound \* history: the files as the latest rebuild found them, kept
                 \* until the workers are next all idle and a request arrives

vars == <<comments, targets, flags, snapshots, clock, req, accepted, budget,
          response, before, serial, createdUnder, outcome, seen, rebuildFound>>

Idle == [pc |-> "idle"]

NoResponse == [op |-> "none"]

NoBefore == [solo |-> FALSE]

NoHistory == [t \in TargetIds |-> <<>>]

\* No create or reply has returned yet (0: no response so far).
NoOutcome == [i \in Ids |-> 0]

NoRebuild == [known |-> FALSE]

InFlight(w) == req[w].pc /= "idle"

Quiet == \A w \in Workers : ~InFlight(w)

\* The data directories are empty and every worker is idle.
Started ==
    /\ comments = EmptyMap
    /\ targets = EmptyMap
    /\ flags = EmptyMap
    /\ snapshots = EmptyMap
    /\ clock = 0
    /\ req = [w \in Workers |-> Idle]
    /\ accepted = 0
    /\ response = NoResponse
    /\ before = NoBefore
    /\ serial = TRUE
    /\ createdUnder = NoHistory
    /\ outcome = NoOutcome
    /\ seen = {}
    /\ rebuildFound = NoRebuild

Init == Started /\ budget = MaxRequests

InitIndex == Started /\ budget = MaxIndexRequests

OthersIdle(w) == \A v \in Workers \ {w} : ~InFlight(v)

\* The server hands a new request to the first worker that is free.
FirstFree(w) == ~InFlight(w) /\ (w = "w2" => InFlight("w1"))

\* The response just sent is that of handler op, which ran with no other
\* request in flight.
SoloResponse(op) == response.op = op /\ before.solo

RebuiltJustNow == SoloResponse("rebuild_index") /\ response.status = 200

\* What a request accepted by w finds: kept for a solo request only.
Found(w) ==
    IF OthersIdle(w)
    THEN [solo |-> TRUE, comments |-> comments, targets |-> targets, flags |-> flags,
          snapshots |-> snapshots,
          rebuilt |-> RebuiltJustNow,
          rebuilt_targets |-> IF RebuiltJustNow THEN response.body.targets ELSE <<>>]
    ELSE NoBefore

\* Some worker is inside the snapshot handler.
SnapshotRunning == \E v \in Workers : InFlight(v) /\ req[v].op = "snapshot"

\* Some worker is inside the rebuild handler.
RebuildRunning == \E v \in Workers : InFlight(v) /\ req[v].op = "rebuild_index"

\* The index and flag files as they are now.
Derived == [targets |-> targets, flags |-> flags]

\* History of the moments a running snapshot spans, one step further on.
SeenSoFar(starting) ==
    (IF SnapshotRunning THEN seen ELSE {})
        \cup (IF starting \/ SnapshotRunning THEN {Derived} ELSE {})

\* History kept when a request of handler op is accepted; status is what it
\* returns at once, 0 if it goes on.
FoundByRebuild(op, status) ==
    IF op = "rebuild_index"
    THEN [known |-> TRUE, alone |-> ~RebuildRunning, status |-> status,
          comments |-> comments, targets |-> targets]
    ELSE IF Quiet THEN NoRebuild ELSE rebuildFound

Accept(w) ==
    /\ FirstFree(w)
    /\ accepted < budget
    /\ accepted' = accepted + 1
    /\ UNCHANGED budget
    /\ before' = Found(w)
    /\ UNCHANGED outcome

\* The accepted handler stops at its next file operation.
AcceptGoto(w, locals) ==
    /\ Accept(w)
    /\ req' = [req EXCEPT ![w] = locals]
    /\ response' = NoResponse
    /\ seen' = SeenSoFar(locals.op = "snapshot")
    /\ rebuildFound' = FoundByRebuild(locals.op, 0)

\* The accepted handler returns (or raises) at once.
AcceptRespond(w, op, args, status, body) ==
    /\ Accept(w)
    /\ req' = req
    /\ response' = [op |-> op, args |-> args, status |-> status, body |-> body]
    /\ seen' = SeenSoFar(FALSE)
    /\ rebuildFound' = FoundByRebuild(op, status)

\* The handler moves on to its next file operation.
Goto(w, locals) ==
    /\ req' = [req EXCEPT ![w] = locals]
    /\ response' = NoResponse
    /\ seen' = SeenSoFar(FALSE)
    /\ UNCHANGED <<accepted, budget, before, outcome, rebuildFound>>

\* The handler returns (or raises): the response is sent.
Respond(w, status, body) ==
    /\ req' = [req EXCEPT ![w] = Idle]
    /\ response' = [op |-> req[w].op, args |-> req[w].args, status |-> status,
                    body |-> body]
    /\ seen' = SeenSoFar(FALSE)
    /\ outcome' = IF "new_id" \in DOMAIN req[w]
                  THEN [outcome EXCEPT ![req[w].new_id] = status] ELSE outcome
    /\ rebuildFound' = IF req[w].op = "rebuild_index" /\ rebuildFound.known
                       THEN [rebuildFound EXCEPT !.status = status]
                       ELSE rebuildFound
    /\ UNCHANGED <<accepted, budget, before>>

\* History kept for serial runs only (dropped once a run stops being serial).
Track(stillSerial, created) ==
    /\ serial' = (serial /\ stillSerial)
    /\ createdUnder' = IF serial /\ stillSerial THEN created ELSE NoHistory

\* ----------------------------------------------------------- read handlers
\* datetime parsed by CommentNote from the stored string.
ParseDatetime(s) == s[1]

\* CommentNote(**comment_data) as serialised in a response.
CommentNote(comment_data) ==
    [comment_data EXCEPT !.published = IsoFormatZ(ParseDatetime(@)),
                         !.target = HttpUrl(@)]

\* GET /comments/{target_id}
GetComments(target_id) ==
    LET index_file == IndexFile(target_id)
    IN IF index_file \notin DOMAIN targets
       THEN [status |-> 200, totalItems |-> 0, orderedItems |-> <<>>]
       ELSE IF ~Parses(targets[index_file])
       THEN [status |-> 500, totalItems |-> 0, orderedItems |-> <<>>]
       ELSE LET comment_ids == targets[index_file][1]
            IN [status |-> 200,
                totalItems |-> Len(comment_ids),
                orderedItems |-> [i \in 1..Len(comment_ids) |-> CommentUrl(comment_ids[i])]]

\* A bug GetComment could have: no exists() check, so a missing file fails
\* in open().
GetComment_MissingIs500(ulid_id) ==
    LET comment_file == CommentFile(ulid_id)
    IN IF comment_file \in DOMAIN comments /\ Parses(comments[comment_file])
       THEN [status |-> 200, body |-> CommentNote(comments[comment_file][1])]
       ELSE [status |-> 500, body |-> NoneValue]

\* GET /comment/{ulid_id}
GetComment(ulid_id) ==
    LET comment_file == CommentFile(ulid_id)
    IN IF comment_file \notin DOMAIN comments
       THEN [status |-> 404, body |-> NoneValue]
       ELSE IF ~Parses(comments[comment_file])
       THEN [status |-> 500, body |-> NoneValue]
       ELSE [status |-> 200, body |-> CommentNote(comments[comment_file][1])]

\* A bug GetFlags could have: a missing flag file answered like a missing
\* comment.
GetFlags_MissingIs404(ulid_id) ==
    LET flag_file == FlagFile(ulid_id)
    IN IF flag_file \notin DOMAIN flags
       THEN [status |-> 404, body |-> EmptyMap]
       ELSE IF ~Parses(flags[flag_file])
       THEN [status |-> 500, body |-> EmptyMap]
       ELSE [status |-> 200, body |-> flags[flag_file][1]]

\* GET /comment/{ulid_id}/flags
GetFlags(ulid_id) ==
    LET flag_file == FlagFile(ulid_id)
    IN IF flag_file \notin DOMAIN flags
       THEN [status |-> 200, body |-> EmptyMap]
       ELSE IF ~Parses(flags[flag_file])
       THEN [status |-> 500, body |-> EmptyMap]
       ELSE [status |-> 200, body |-> flags[flag_file][1]]

\* ULID(): an identifier no comment file carries yet.
FreshIds == {i \in Ids : CommentFile(i) \notin DOMAIN comments}

\* ------------------------------------------------- POST /comments/{target_id}
\* new_id, now_dt, note; comment_file.open("w")
PostCommentOpen(w, target_id, input) ==
    \E new_id \in FreshIds :
        /\ AcceptGoto(w, [pc |-> "post_dump", op |-> "post_comment",
                          args |-> [target_id |-> target_id, input |-> input],
                          new_id |-> new_id,
                          comment_data |-> CommentData(new_id, input, clock, NoneValue,
                                                       TargetUrl(target_id))])
        /\ comments' = Put(comments, CommentFile(new_id), Truncated)
        /\ clock' = clock + 1
        /\ Track(OthersIdle(w), [createdUnder EXCEPT ![target_id] = Append(@, new_id)])
        /\ UNCHANGED <<targets, flags, snapshots>>

\* json.dump(comment_data, f) and close
PostCommentDump(w) ==
    /\ req[w].pc = "post_dump"
    /\ LET comment_file == CommentFile(req[w].new_id)
       IN comments' = Put(comments, comment_file,
                          WriteRecord(comments[comment_file], req[w].comment_data))
    /\ Goto(w, [req[w] EXCEPT !.pc = "post_index_read"])
    /\ UNCHANGED <<targets, flags, snapshots, clock, serial, createdUnder>>

\* index_file.exists() and json.load
PostCommentIndexRead(w) ==
    /\ req[w].pc = "post_index_read"
    /\ LET index_file == IndexFile(req[w].args.target_id)
       IN IF index_file \notin DOMAIN targets
          THEN /\ Goto(w, [pc |-> "post_index_open", op |-> req[w].op, args |-> req[w].args,
                           new_id |-> req[w].new_id, comment_data |-> req[w].comment_data,
                           comment_ids |-> <<>>])
               /\ UNCHANGED <<serial, createdUnder>>
          ELSE IF ~Parses(targets[index_file])
          THEN /\ Respond(w, 500, NoneValue)
               /\ UNCHANGED <<serial, createdUnder>>
          ELSE /\ Goto(w, [pc |-> "post_index_open", op |-> req[w].op, args |-> req[w].args,
                           new_id |-> req[w].new_id, comment_data |-> req[w].comment_data,
                           comment_ids |-> targets[index_file][1]])
               /\ UNCHANGED <<serial, createdUnder>>
    /\ UNCHANGED <<comments, targets, flags, snapshots, clock>>

\* index_file.open("w")
PostCommentIndexOpen(w) ==
    /\ req[w].pc = "post_index_open"
    /\ targets' = Put(targets, IndexFile(req[w].args.target_id), Truncated)
    /\ Goto(w, [req[w] EXCEPT !.pc = "post_index_dump"])
    /\ UNCHANGED <<comments, flags, snapshots, clock, serial, createdUnder>>

\* A variant PostCommentIndexDump could be: the ids of the stored comments of
\* the target that the list read lacks are put back in front of the new id.
PostCommentIndexDump_KeepStored(w) ==
    /\ req[w].pc = "post_index_dump"
    /\ LET index_file == IndexFile(req[w].args.target_id)
           lacking == {i \in Ids \ (Range(req[w].comment_ids) \cup {req[w].new_id}) :
                          /\ CommentFile(i) \in DOMAIN comments
                          /\ Parses(comments[CommentFile(i)])
                          /\ comments[CommentFile(i)][1].target
                                = req[w].comment_data.target}
           put_back == CHOOSE ids \in [1..Cardinality(lacking) -> lacking] :
                          Range(ids) = lacking
       IN targets' = Put(targets, index_file,
                         WriteIndex(targets[index_file],
                                    AppendId(req[w].comment_ids \o put_back,
                                             req[w].new_id)))
    /\ Respond(w, 200, CommentNote(req[w].comment_data))
    /\ UNCHANGED <<comments, flags, snapshots, clock, serial, createdUnder>>

\* comment_ids.append(new_id); json.dump(comment_ids, f); return note
PostCommentIndexDump(w) ==
    /\ req[w].pc = "post_index_dump"
    /\ LET index_file == IndexFile(req[w].args.target_id)
       IN targets' = Put(targets, index_file,
                         WriteIndex(targets[index_file],
                                    AppendId(req[w].comment_ids, req[w].new_id)))
    /\ Respond(w, 200, CommentNote(req[w].comment_data))
    /\ UNCHANGED <<comments, flags, snapshots, clock, serial, createdUnder>>

\* --------------------------------------------------- PATCH /comment/{ulid_id}
\* A bug EditOverrides could have: the record is stamped with a new time.
EditOverrides_Restamp(comment_data, input) ==
    [comment_data EXCEPT !.content = input.content,
                         !.attributedTo = ActorDump(input.attributedTo),
                         !.published = IsoFormatZ(ParseDatetime(@) + 1)]

\* comment_data['content'] = ...; comment_data['attributedTo'] = ...
EditOverrides(comment_data, input) ==
    [comment_data EXCEPT !.content = input.content,
                         !.attributedTo = ActorDump(input.attributedTo)]

\* comment_file.exists(); json.load; the two field overrides
EditCommentRead(w, ulid_id, input) ==
    /\ LET comment_file == CommentFile(ulid_id)
           args == [ulid_id |-> ulid_id, input |-> input]
       IN IF comment_file \notin DOMAIN comments
          THEN AcceptRespond(w, "edit_comment", args, 404, NoneValue)
          ELSE IF ~Parses(comments[comment_file])
          THEN AcceptRespond(w, "edit_comment", args, 500, NoneValue)
          ELSE AcceptGoto(w, [pc |-> "edit_open", op |-> "edit_comment", args |-> args,
                              comment_data |->
                                  EditOverrides(comments[comment_file][1], input)])
    /\ Track(OthersIdle(w), createdUnder)
    /\ UNCHANGED <<comments, targets, flags, snapshots, clock>>

\* comment_file.open("w")
EditCommentOpen(w) ==
    /\ req[w].pc = "edit_open"
    /\ comments' = Put(comments, CommentFile(req[w].args.ulid_id), Truncated)
    /\ Goto(w, [req[w] EXCEPT !.pc = "edit_dump"])
    /\ UNCHANGED <<targets, flags, snapshots, clock, serial, createdUnder>>

\* json.dump(comment_data, f); return CommentNote(**comment_data)
EditCommentDump(w) ==
    /\ req[w].pc = "edit_dump"
    /\ LET comment_file == CommentFile(req[w].args.ulid_id)
       IN comments' = Put(comments, comment_file,
                          WriteRecord(comments[comment_file], req[w].comment_data))
    /\ Respond(w, 200, CommentNote(req[w].comment_data))
    /\ UNCHANGED <<targets, flags, snapshots, clock, serial, createdUnder>>

\* ---------------------------------------------- POST /comment/{ulid_id}/reply
\* parent_comment = await get_comment(ulid_id); target_url = parent_comment.target
ReplyGetParent(w, ulid_id, input) ==
    /\ LET parent == GetComment(ulid_id)
           args == [ulid_id |-> ulid_id, input |-> input]
       IN IF parent.status /= 200
          THEN AcceptRespond(w, "reply_to_comment", args, parent.status, NoneValue)
          ELSE AcceptGoto(w, [pc |-> "reply_open", op |-> "reply_to_comment",
                              args |-> args, parent_comment |-> parent.body])
    /\ Track(FALSE, createdUnder)
    /\ UNCHANGED <<comments, targets, flags, snapshots, clock>>

\* new_id, now_dt, reply; comment_file.open("w")
ReplyOpen(w) ==
    /\ req[w].pc = "reply_open"
    /\ \E new_id \in FreshIds :
        /\ Goto(w, [pc |-> "reply_dump", op |-> req[w].op, args |-> req[w].args,
                    new_id |-> new_id,
                    target_id |-> RSplitLast(req[w].parent_comment.target),
                    comment_data |-> CommentData(new_id, req[w].args.input, clock,
                                                 req[w].parent_comment.id,
                                                 req[w].parent_comment.target)])
        /\ comments' = Put(comments, CommentFile(new_id), Truncated)
    /\ clock' = clock + 1
    /\ UNCHANGED <<targets, flags, snapshots, serial, createdUnder>>

\* json.dump(comment_data, f) and close
ReplyDump(w) ==
    /\ req[w].pc = "reply_dump"
    /\ LET comment_file == CommentFile(req[w].new_id)
       IN comments' = Put(comments, comment_file,
                          WriteRecord(comments[comment_file], req[w].comment_data))
    /\ Goto(w, [req[w] EXCEPT !.pc = "reply_index_read"])
    /\ UNCHANGED <<targets, flags, snapshots, clock, serial, createdUnder>>

\* index_file.exists() and json.load
ReplyIndexRead(w) ==
    /\ req[w].pc = "reply_index_read"
    /\ LET index_file == IndexFile(req[w].target_id)
       IN IF index_file \notin DOMAIN targets
          THEN Goto(w, [pc |-> "reply_index_open", op |-> req[w].op, args |-> req[w].args,
                        new_id |-> req[w].new_id, target_id |-> req[w].target_id,
                        comment_data |-> req[w].comment_data, comment_ids |-> <<>>])
          ELSE IF ~Parses(targets[index_file])
          THEN Respond(w, 500, NoneValue)
          ELSE Goto(w, [pc |-> "reply_index_open", op |-> req[w].op, args |-> req[w].args,
                        new_id |-> req[w].new_id, target_id |-> req[w].target_id,
                        comment_data |-> req[w].comment_data,
                        comment_ids |-> targets[index_file][1]])
    /\ UNCHANGED <<comments, targets, flags, snapshots, clock, serial, createdUnder>>

\* index_file.open("w")
ReplyIndexOpen(w) ==
    /\ req[w].pc = "reply_index_open"
    /\ targets' = Put(targets, IndexFile(req[w].target_id), Truncated)
    /\ Goto(w, [req[w] EXCEPT !.pc = "reply_index_dump"])
    /\ UNCHANGED <<comments, flags, snapshots, clock, serial, createdUnder>>

\* comment_ids.append(new_id); json.dump(comment_ids, f); return reply
ReplyIndexDump(w) ==
    /\ req[w].pc = "reply_index_dump"
    /\ LET index_file == IndexFile(req[w].target_id)
       IN targets' = Put(targets, index_file,
                         WriteIndex(targets[index_file],
                                    AppendId(req[w].comment_ids, req[w].new_id)))
    /\ Respond(w, 200, CommentNote(req[w].comment_data))
    /\ UNCHANGED <<comments, flags, snapshots, clock, serial, createdUnder>>

\* --------------------------------------------- PATCH /comment/{ulid_id}/flags
\* request validation; flag_file.exists(); json.load; the merge
UpdateFlagsRead(w, ulid_id, body) ==
    /\ LET flag_file == FlagFile(ulid_id)
           args == [ulid_id |-> ulid_id, flags |-> body]
       IN IF ~ValidFlagUpdate(body)
          THEN AcceptRespond(w, "update_flags", args, 422, NoneValue)
          ELSE IF flag_file \notin DOMAIN flags
          THEN AcceptGoto(w, [pc |-> "flags_open", op |-> "update_flags", args |-> args,
                              updated_flags |-> MergeFlags(EmptyMap, body)])
          ELSE IF ~Parses(flags[flag_file])
          THEN AcceptRespond(w, "update_flags", args, 500, NoneValue)
          ELSE AcceptGoto(w, [pc |-> "flags_open", op |-> "update_flags", args |-> args,
                              updated_flags |-> MergeFlags(flags[flag_file][1], body)])
    /\ Track(OthersIdle(w), createdUnder)
    /\ UNCHANGED <<comments, targets, flags, snapshots, clock>>

\* flag_file.open("w")
UpdateFlagsOpen(w) ==
    /\ req[w].pc = "flags_open"
    /\ flags' = Put(flags, FlagFile(req[w].args.ulid_id), Truncated)
    /\ Goto(w, [req[w] EXCEPT !.pc = "flags_dump"])
    /\ UNCHANGED <<comments, targets, snapshots, clock, serial, createdUnder>>

\* json.dump(updated_flags, f); return updated_flags
UpdateFlagsDump(w) ==
    /\ req[w].pc = "flags_dump"
    /\ LET flag_file == FlagFile(req[w].args.ulid_id)
       IN flags' = Put(flags, flag_file,
                       WriteFlags(flags[flag_file], req[w].updated_flags))
    /\ Respond(w, 200, req[w].updated_flags)
    /\ UNCHANGED <<comments, targets, snapshots, clock, serial, createdUnder>>

\* ------------------------------------------------ POST /admin/rebuild-index
\* index = {}; the directory listing behind COMMENTS_DIR.glob("*.jsonld")
RebuildIndexGlob(w) ==
    /\ IF DOMAIN comments = {}
       THEN AcceptRespond(w, "rebuild_index", NoneValue, 200,
                          [status |-> "rebuilt", targets |-> <<>>])
       ELSE AcceptGoto(w, [pc |-> "rebuild_load", op |-> "rebuild_index",
                           args |-> NoneValue, todo |-> DOMAIN comments,
                           index |-> EmptyMap, keys |-> <<>>, pending |-> <<>>])
    /\ Track(FALSE, createdUnder)
    /\ UNCHANGED <<comments, targets, flags, snapshots, clock>>

\* A bug SetDefaultAppend could have: item assignment instead of setdefault,
\* so each target keeps the last id scanned only.
SetDefaultAppend_Overwrite(index, target_id, ulid_id) ==
    Put(index, target_id, <<ulid_id>>)

\* index.setdefault(target_id, []).append(ulid_id)
SetDefaultAppend(index, target_id, ulid_id) ==
    Put(index, target_id,
        Append(IF target_id \in DOMAIN index THEN index[target_id] ELSE <<>>, ulid_id))

\* one turn of the scan loop: open, json.load, group under the target's last
\* path segment (the directory order is unspecified)
RebuildIndexLoad(w) ==
    /\ req[w].pc = "rebuild_load"
    /\ \E comment_file \in req[w].todo :
        IF ~Parses(comments[comment_file])
        THEN Respond(w, 500, NoneValue)
        ELSE LET comment == comments[comment_file][1]
                 target_id == RSplitLast(comment.target)
                 ulid_id == PathStem(comment_file)
                 keys == IF target_id \in DOMAIN req[w].index THEN req[w].keys
                         ELSE Append(req[w].keys, target_id)
                 todo == req[w].todo \ {comment_file}
             IN Goto(w, [pc |-> IF todo = {} THEN "rebuild_open" ELSE "rebuild_load",
                         op |-> req[w].op, args |-> req[w].args, todo |-> todo,
                         index |-> SetDefaultAppend(req[w].index, target_id, ulid_id),
                         keys |-> keys, pending |-> keys])
    /\ UNCHANGED <<comments, targets, flags, snapshots, clock, serial, createdUnder>>

\* index_file.open("w") for the next target of index.items()
RebuildIndexOpen(w) ==
    /\ req[w].pc = "rebuild_open"
    /\ targets' = Put(targets, IndexFile(Head(req[w].pending)), Truncated)
    /\ Goto(w, [req[w] EXCEPT !.pc = "rebuild_dump"])
    /\ UNCHANGED <<comments, flags, snapshots, clock, serial, createdUnder>>

\* A variant RebuildIndexDump could be: the rebuild also resets the flag
\* overlay.
RebuildIndexDump_DropFlags(w) ==
    /\ req[w].pc = "rebuild_dump"
    /\ LET target_id == Head(req[w].pending)
           index_file == IndexFile(target_id)
       IN targets' = Put(targets, index_file,
                         WriteIndex(targets[index_file], Sorted(req[w].index[target_id])))
    /\ IF Tail(req[w].pending) = <<>>
       THEN Respond(w, 200, [status |-> "rebuilt", targets |-> req[w].keys])
       ELSE Goto(w, [req[w] EXCEPT !.pc = "rebuild_open", !.pending = Tail(@)])
    /\ flags' = EmptyMap
    /\ UNCHANGED <<comments, snapshots, clock, serial, createdUnder>>

\* json.dump(sorted(ulid_list), f); after the last target, the response
RebuildIndexDump(w) ==
    /\ req[w].pc = "rebuild_dump"
    /\ LET target_id == Head(req[w].pending)
           index_file == IndexFile(target_id)
       IN targets' = Put(targets, index_file,
                         WriteIndex(targets[index_file], Sorted(req[w].index[target_id])))
    /\ IF Tail(req[w].pending) = <<>>
       THEN Respond(w, 200, [status |-> "rebuilt", targets |-> req[w].keys])
       ELSE Goto(w, [req[w] EXCEPT !.pc = "rebuild_open", !.pending = Tail(@)])
    /\ UNCHANGED <<comments, flags, snapshots, clock, serial, createdUnder>>

\* ---------------------------------------------------- POST /admin/snapshot
NoSnapshotData == [indexes |-> EmptyMap, flags |-> EmptyMap]

\* snapshot_data = {...}; the directory listing behind TARGETS_DIR.glob
SnapshotGlobIndexes(w) ==
    /\ AcceptGoto(w, [pc |-> IF DOMAIN targets = {} THEN "snapshot_glob_flags"
                             ELSE "snapshot_load_index",
                      op |-> "snapshot", args |-> NoneValue, todo |-> DOMAIN targets,
                      snapshot_data |-> NoSnapshotData])
    /\ Track(OthersIdle(w), createdUnder)
    /\ UNCHANGED <<comments, targets, flags, snapshots, clock>>

\* snapshot_data["indexes"][index_file.stem] = json.load(f)
SnapshotLoadIndex(w) ==
    /\ req[w].pc = "snapshot_load_index"
    /\ \E index_file \in req[w].todo :
        IF ~Parses(targets[index_file])
        THEN Respond(w, 500, NoneValue)
        ELSE LET todo == req[w].todo \ {index_file}
             IN Goto(w, [req[w] EXCEPT
                    !.pc = IF todo = {} THEN "snapshot_glob_flags" ELSE "snapshot_load_index",
                    !.todo = todo,
                    !.snapshot_data.indexes =
                        Put(@, PathStem(index_file), targets[index_file][1])])
    /\ UNCHANGED <<comments, targets, flags, snapshots, clock, serial, createdUnder>>

\* the directory listing behind FLAGS_DIR.glob
SnapshotGlobFlags(w) ==
    /\ req[w].pc = "snapshot_glob_flags"
    /\ Goto(w, [req[w] EXCEPT
            !.pc = IF DOMAIN flags = {} THEN "snapshot_open" ELSE "snapshot_load_flags",
            !.todo = DOMAIN flags])
    /\ UNCHANGED <<comments, targets, flags, snapshots, clock, serial, createdUnder>>

\* snapshot_data["flags"][flag_file.stem] = json.load(f)
SnapshotLoadFlags(w) ==
    /\ req[w].pc = "snapshot_load_flags"
    /\ \E flag_file \in req[w].todo :
        IF ~Parses(flags[flag_file])
        THEN Respond(w, 500, NoneValue)
        ELSE LET todo == req[w].todo \ {flag_file}
             IN Goto(w, [req[w] EXCEPT
                    !.pc = IF todo = {} THEN "snapshot_open" ELSE "snapshot_load_flags",
                    !.todo = todo,
                    !.snapshot_data.flags =
                        Put(@, PathStem(flag_file), flags[flag_file][1])])
    /\ UNCHANGED <<comments, targets, flags, snapshots, clock, serial, createdUnder>>

\* SNAPSHOT_FILE.open("w")
SnapshotOpen(w) ==
    /\ req[w].pc = "snapshot_open"
    /\ snapshots' = Put(snapshots, SNAPSHOT_FILE, Truncated)
    /\ Goto(w, [req[w] EXCEPT !.pc = "snapshot_dump"])
    /\ UNCHANGED <<comments, targets, flags, clock, serial, createdUnder>>

\* json.dump(snapshot_data, f, sort_keys=True); the response
SnapshotDump(w) ==
    /\ req[w].pc = "snapshot_dump"
    /\ snapshots' = Put(snapshots, SNAPSHOT_FILE,
                        WriteSnapshot(snapshots[SNAPSHOT_FILE], req[w].snapshot_data))
    /\ Respond(w, 200, [status |-> "snapshot created", file |-> SNAPSHOT_FILE])
    /\ UNCHANGED <<comments, targets, flags, clock, serial, createdUnder>>

\* ------------------------------------------------------- GET requests served
\* GET /comments/{target_id}: one look at the index file, nothing written
GetCommentsRequest(w, target_id) ==
    /\ LET listing == GetComments(target_id)
       IN AcceptRespond(w, "get_comments", [target_id |-> target_id],
                        listing.status, listing)
    /\ Track(OthersIdle(w), createdUnder)
    /\ UNCHANGED <<comments, targets, flags, snapshots, clock>>

\* GET /comment/{ulid_id}: one look at the comment file, nothing written
GetCommentRequest(w, ulid_id) ==
    /\ LET read == GetComment(ulid_id)
       IN AcceptRespond(w, "get_comment", [ulid_id |-> ulid_id], read.status, read.body)
    /\ Track(OthersIdle(w), createdUnder)
    /\ UNCHANGED <<comments, targets, flags, snapshots, clock>>

\* GET /comment/{ulid_id}/flags: one look at the flag file, nothing written
GetFlagsRequest(w, ulid_id) ==
    /\ LET read == GetFlags(ulid_id)
       IN AcceptRespond(w, "get_flags", [ulid_id |-> ulid_id], read.status, read.body)
    /\ Track(OthersIdle(w), createdUnder)
    /\ UNCHANGED <<comments, targets, flags, snapshots, clock>>

\* ------------------------------------------------------------------ I/O faults
\* A variant IOFault could be: the handler removes the record it stored.
IOFault_Rollback(w) ==
    /\ InFlight(w)
    /\ Respond(w, 500, NoneValue)
    /\ comments' = IF "new_id" \in DOMAIN req[w]
                   THEN [f \in DOMAIN comments \ {CommentFile(req[w].new_id)} |->
                            comments[f]]
                   ELSE comments
    /\ UNCHANGED <<targets, flags, snapshots, clock, serial, createdUnder>>

\* The file operation the handler is about to perform raises IOError: every
\* handler that writes catches it and answers 500.  An open() that fails
\* leaves the file as it was; a dump that fails leaves the file that
\* open("w") emptied without a document.
IOFault(w) ==
    /\ InFlight(w)
    /\ Respond(w, 500, NoneValue)
    /\ UNCHANGED <<comments, targets, flags, snapshots, clock, serial, createdUnder>>

\* ------------------------------------------------------------ specification
Next ==
    \E w \in Workers :
        \/ \E t \in TargetIds, input \in CommentInputs : PostCommentOpen(w, t, input)
        \/ PostCommentDump(w)
        \/ PostCommentIndexRead(w)
        \/ PostCommentIndexOpen(w)
        \/ PostCommentIndexDump(w)
        \/ \E i \in Ids, input \in CommentInputs : EditCommentRead(w, i, input)
        \/ EditCommentOpen(w)
        \/ EditCommentDump(w)
        \/ \E i \in Ids, input \in CommentInputs : ReplyGetParent(w, i, input)
        \/ ReplyOpen(w)
        \/ ReplyDump(w)
        \/ ReplyIndexRead(w)
        \/ ReplyIndexOpen(w)
        \/ ReplyIndexDump(w)
        \/ \E i \in Ids, body \in FlagBodies : UpdateFlagsRead(w, i, body)
        \/ UpdateFlagsOpen(w)
        \/ UpdateFlagsDump(w)
        \/ RebuildIndexGlob(w)
        \/ RebuildIndexLoad(w)
        \/ RebuildIndexOpen(w)
        \/ RebuildIndexDump(w)
        \/ SnapshotGlobIndexes(w)
        \/ SnapshotLoadIndex(w)
        \/ SnapshotGlobFlags(w)
        \/ SnapshotLoadFlags(w)
        \/ SnapshotOpen(w)
        \/ SnapshotDump(w)

Spec == Init /\ [][Next]_vars

\* Runs of creates, replies and rebuilds only, one request longer.
NextIndex ==
    \E w \in Workers :
        \/ \E t \in TargetIds, input \in CommentInputs : PostCommentOpen(w, t, input)
        \/ PostCommentDump(w)
        \/ PostCommentIndexRead(w)
        \/ PostCommentIndexOpen(w)
        \/ PostCommentIndexDump(w)
        \/ \E i \in Ids, input \in CommentInputs : ReplyGetParent(w, i, input)
        \/ ReplyOpen(w)
        \/ ReplyDump(w)
        \/ ReplyIndexRead(w)
        \/ ReplyIndexOpen(w)
        \/ ReplyIndexDump(w)
        \/ RebuildIndexGlob(w)
        \/ RebuildIndexLoad(w)
        \/ RebuildIndexOpen(w)
        \/ RebuildIndexDump(w)

SpecIndex == InitIndex /\ [][NextIndex]_vars

\* Runs in which clients also read: listings, single comments and flags.
NextRead ==
    \/ Next
    \/ \E w \in Workers :
        \/ \E t \in TargetIds : GetCommentsRequest(w, t)
        \/ \E i \in Ids : GetCommentRequest(w, i)
        \/ \E i \in Ids : GetFlagsRequest(w, i)

SpecRead == Init /\ [][NextRead]_vars

\* Runs in which file operations can fail.
NextFault ==
    \/ Next
    \/ \E w \in Workers : IOFault(w)

SpecFault == Init /\ [][NextFault]_vars

\* ------------------------------------------------------------ vocabulary
\* The ids GET /comments/{target_id} lists (references without the base URL).
ListedIds(target_id) ==
    LET index_file == IndexFile(target_id)
    IN IF index_file \in DOMAIN targets /\ Parses(targets[index_file])
       THEN targets[index_file][1] ELSE <<>>

References(ids) == [i \in 1..Len(ids) |-> CommentUrl(ids[i])]

\* The target id whose index a file of TARGETS_DIR is.
IndexedTarget(index_file) == SubSeq(index_file, 1, Len(index_file) - 2)

\* The ids of the comment records the Document Store holds in full.
StoredIds == {i \in Ids : CommentFile(i) \in DOMAIN comments
                          /\ Parses(comments[CommentFile(i)])}

Record(i) == comments[CommentFile(i)][1]

\* Stored comments whose target is the one a create under target_id records.
IdsOfTarget(target_id) == {i \in StoredIds : Record(i).target = TargetUrl(target_id)}

\* Stored top-level comments created under target_id.
CreatedIds(target_id) == {i \in IdsOfTarget(target_id) : Record(i).inReplyTo = NoneValue}

\* The target id under which the create or reply that stored comment i files
\* it: the create's path parameter, the reply's last segment of the target.
WrittenIndex(i) ==
    IF Record(i).inReplyTo = NoneValue
    THEN CHOOSE t \in TargetIds : TargetUrl(t) = Record(i).target
    ELSE RSplitLast(Record(i).target)

\* The target id under whose index worker w, inside a create or reply, files
\* its comment.
IndexKey(w) ==
    IF req[w].op = "post_comment" THEN req[w].args.target_id ELSE req[w].target_id

\* Every id some index file lists.
AllListedIds ==
    UNION {Range(targets[f][1]) : f \in {g \in DOMAIN targets : Parses(targets[g])}}

\* What the two loops of snapshot gather from index and flag files that all
\* hold a document: one entry per file, keyed by the file's stem.
AsSnapshot(d) ==
    [indexes |-> [k \in {PathStem(f) : f \in DOMAIN d.targets} |->
                     d.targets[CHOOSE f \in DOMAIN d.targets : PathStem(f) = k][1]],
     flags |-> [k \in {PathStem(f) : f \in DOMAIN d.flags} |->
                   d.flags[CHOOSE f \in DOMAIN d.flags : PathStem(f) = k][1]]]

\* snapshot_data is a copy of the index and flag files as they all were at
\* one moment since the running snapshot began.
PointInTime(snapshot_data) ==
    \E d \in seen \cup {Derived} :
        /\ \A f \in DOMAIN d.targets : Parses(d.targets[f])
        /\ \A f \in DOMAIN d.flags : Parses(d.flags[f])
        /\ snapshot_data = AsSnapshot(d)

RECURSIVE SetToSortedSeq(_)
SetToSortedSeq(S) ==
    IF S = {} THEN <<>>
    ELSE LET m == CHOOSE x \in S : \A y \in S : x[1] <= y[1]
         IN <<m>> \o SetToSortedSeq(S \ {m})

\* ------------------------------------------------------------------ claims
\* C1: after N creates under a target executed one at a time (no overlapping
\* requests, no reply, no rebuild), listing the target returns totalItems = N
\* and exactly the N created references, in the order of the creates.
C1_SerialCreatesListedInOrder ==
    (serial /\ Quiet) =>
        \A t \in TargetIds :
            LET listing == GetComments(t)
            IN /\ listing.status = 200
               /\ listing.totalItems = Len(createdUnder[t])
               /\ listing.orderedItems = References(createdUnder[t])

\* C1 witness: two creates under one target were served one after the other,
\* the second with the smaller id, so creation order is not id order.
C1_Witness ==
    /\ serial /\ Quiet
    /\ \E t \in TargetIds :
        /\ Len(createdUnder[t]) = 2
        /\ createdUnder[t][1][1] > createdUnder[t][2][1]
        /\ GetComments(t).totalItems = 2

\* C2: two creates under the same target, interleaved in any way, followed by
\* one rebuild that runs alone: listing that target then contains both ids.
C2_RebuildListsBothCreates ==
    RebuiltJustNow =>
        \A t \in TargetIds :
            Cardinality(CreatedIds(t)) = 2 =>
                \A i \in CreatedIds(t) :
                    CommentUrl(i) \in Range(GetComments(t).orderedItems)

\* C3: in every reachable state every id listed in a target's index is the id
\* of a comment that exists in the Document Store with that target.
C3_ListedIdsAreStoredUnderTarget ==
    \A index_file \in DOMAIN targets :
        Parses(targets[index_file]) =>
            \A i \in Range(targets[index_file][1]) :
                /\ i \in StoredIds
                /\ Record(i).target = TargetUrl(IndexedTarget(index_file))

\* C4: after a reply to a comment created under target T, listing T includes
\* the reply's reference, and the parent's reference if it was listed before.
C4_ReplyListedUnderParentTarget ==
    (SoloResponse("reply_to_comment") /\ response.status = 200) =>
        \A t \in TargetIds :
            response.args.ulid_id \in CreatedIds(t) =>
                LET listed == Range(GetComments(t).orderedItems)
                    index_file == IndexFile(t)
                    was_listed == /\ index_file \in DOMAIN before.targets
                                  /\ Parses(before.targets[index_file])
                                  /\ response.args.ulid_id
                                        \in Range(before.targets[index_file][1])
                IN /\ response.body.id \in listed
                   /\ was_listed => CommentUrl(response.args.ulid_id) \in listed

\* C5: after a flag merge that ran alone, every flag name the merge supplied
\* with a non-null value is stored with that value, and every other name has
\* the value it had before (or is absent as before).
C5_FlagMergeStored ==
    SoloResponse("update_flags") =>
        LET ulid_id == response.args.ulid_id
            supplied == response.args.flags
            was == IF FlagFile(ulid_id) \in DOMAIN before.flags
                      /\ Parses(before.flags[FlagFile(ulid_id)])
                   THEN before.flags[FlagFile(ulid_id)][1] ELSE EmptyMap
            now == GetFlags(ulid_id).body
            set == {k \in DOMAIN supplied : supplied[k] /= "null"}
        IN /\ DOMAIN now = DOMAIN was \cup set
           /\ \A k \in DOMAIN now : now[k] = IF k \in set THEN supplied[k] ELSE was[k]

\* C6: a rebuild that runs alone right after a rebuild that ran alone (no
\* write in between) leaves every index file with the contents the first run
\* left, and returns the same set of targets.
C6_RebuildTwiceSameIndexes ==
    (RebuiltJustNow /\ before.rebuilt) =>
        /\ targets = before.targets
        /\ Range(response.body.targets) = Range(before.rebuilt_targets)

\* C6 witness: the second of two successive rebuilds has finished, over a
\* store with two comments in one index.
C6_Witness ==
    /\ RebuiltJustNow /\ before.rebuilt
    /\ \E index_file \in DOMAIN targets :
        Parses(targets[index_file]) /\ Len(targets[index_file][1]) = 2

\* C7: after a rebuild that ran alone, for every target with a stored comment
\* the listing is exactly the ids of the stored comments of that target, each
\* once, in ascending id order.
C7_RebuildListsTargetSorted ==
    RebuiltJustNow =>
        \A t \in TargetIds :
            IdsOfTarget(t) /= {} =>
                /\ GetComments(t).status = 200
                /\ ListedIds(t) = SetToSortedSeq(IdsOfTarget(t))

\* C8: rebuild returns status 'rebuilt' and, as targets, exactly the target
\* identifiers (as used in the creates) that have at least one stored comment.
C8_RebuildReturnsCreatedTargets ==
    RebuiltJustNow =>
        /\ response.body.status = "rebuilt"
        /\ Range(response.body.targets) = {t \in TargetIds : IdsOfTarget(t) /= {}}

\* C9: after a snapshot that ran alone, the snapshot's indexes mapping has one
\* entry per persisted index, keyed by the target, holding the ids listing
\* that target returns; its flags mapping has one entry per flag file, keyed
\* by the comment id, holding that comment's flag set.
C9_SnapshotMirrorsIndexesAndFlags ==
    (SoloResponse("snapshot") /\ response.status = 200) =>
        LET data == snapshots[SNAPSHOT_FILE][1]
            indexed == {IndexedTarget(f) : f \in DOMAIN targets}
            flagged == {i \in Ids : FlagFile(i) \in DOMAIN flags}
        IN /\ DOMAIN data.indexes = indexed
           /\ \A t \in indexed : data.indexes[t] = ListedIds(t)
           /\ DOMAIN data.flags = flagged
           /\ \A i \in flagged : data.flags[i] = GetFlags(i).body

\* C10: an edit that ran alone leaves the comment with the new content and
\* author (the author replaced as a whole) and with its id, creation time,
\* parent and target as before; every other comment, every index file and
\* every flag file is as before.
C10_EditChangesContentAndAuthorOnly ==
    (SoloResponse("edit_comment") /\ response.status = 200) =>
        LET ulid_id == response.args.ulid_id
            input == response.args.input
            was == CommentNote(before.comments[CommentFile(ulid_id)][1])
            read == GetComment(ulid_id)
        IN /\ read.status = 200
           /\ read.body.content = input.content
           /\ read.body.attributedTo = ActorDump(input.attributedTo)
           /\ read.body.id = was.id
           /\ read.body.published = was.published
           /\ read.body.inReplyTo = was.inReplyTo
           /\ read.body.target = was.target
           /\ read.body.type = was.type
           /\ DOMAIN comments = DOMAIN before.comments
           /\ \A f \in DOMAIN comments \ {CommentFile(ulid_id)} :
                  comments[f] = before.comments[f]
           /\ targets = before.targets
           /\ flags = before.flags

\* C10 witness: an edit that ran alone changed the content of a comment while
\* an index file and a flag file exist.
C10_Witness ==
    /\ SoloResponse("edit_comment") /\ response.status = 200
    /\ before.comments[CommentFile(response.args.ulid_id)][1].content
          /= response.args.input.content
    /\ DOMAIN targets /= {}
    /\ DOMAIN flags /= {}

\* C11: a read-single, an edit or a reply for an id that has no comment file
\* answers 404 and leaves every comment, index and flag file as it was.
C11_UnknownIdIsNotFound ==
    [][(/\ response'.op \in {"get_comment", "edit_comment", "reply_to_comment"}
        /\ CommentFile(response'.args.ulid_id) \notin DOMAIN comments)
       => (/\ response'.status = 404
           /\ comments' = comments
           /\ targets' = targets
           /\ flags' = flags)]_vars

\* C11 witness: a reply to an unknown parent was refused while another
\* comment and its index exist.
C11_Witness ==
    /\ response.op = "reply_to_comment"
    /\ response.status = 404
    /\ CommentFile(response.args.ulid_id) \notin DOMAIN comments
    /\ StoredIds /= {}
    /\ DOMAIN targets /= {}

\* C12: listing a target that has no index file answers the empty collection
\* (totalItems 0, no items), reading the flags of an id that has no flag file
\* answers the empty mapping, and neither read changes any file.
C12_MissingDerivedFileReadsEmpty ==
    [][/\ (/\ response'.op = "get_comments"
           /\ IndexFile(response'.args.target_id) \notin DOMAIN targets)
          => (/\ response'.status = 200
              /\ response'.body.totalItems = 0
              /\ response'.body.orderedItems = <<>>
              /\ <<comments, targets, flags, snapshots>>'
                    = <<comments, targets, flags, snapshots>>)
       /\ (/\ response'.op = "get_flags"
           /\ FlagFile(response'.args.ulid_id) \notin DOMAIN flags)
          => (/\ response'.status = 200
              /\ response'.body = EmptyMap
              /\ <<comments, targets, flags, snapshots>>'
                    = <<comments, targets, flags, snapshots>>)]_vars

\* C12 witness: a target without index was listed as empty while another
\* target has an index with an entry.
C12_Witness ==
    /\ response.op = "get_comments"
    /\ IndexFile(response.args.target_id) \notin DOMAIN targets
    /\ response.body.totalItems = 0
    /\ \E t \in TargetIds : Len(ListedIds(t)) > 0

\* C13: when a create or reply writes its index (open and dump) after
\* another create or reply under the same target has written its own and
\* returned success, and had read the index before that write (read, read,
\* write, write), it returns success too, both comments are stored, and the
\* index holds the second writer's id and not the first's.
C13_StaleReadDropsFirstId ==
    [][\A w \in Workers, i \in Ids :
        (/\ req[w].pc \in {"post_index_dump", "reply_index_dump"}
         /\ OthersIdle(w)
         /\ targets[IndexFile(IndexKey(w))] = Truncated
         /\ req'[w] = Idle
         /\ i /= req[w].new_id
         /\ outcome[i] = 200
         /\ i \in StoredIds
         /\ WrittenIndex(i) = IndexKey(w)
         /\ i \notin Range(req[w].comment_ids))
        => LET index_file == IndexFile(IndexKey(w))
           IN /\ response'.status = 200
              /\ outcome'[i] = 200
              /\ outcome'[req[w].new_id] = 200
              /\ {i, req[w].new_id} \subseteq StoredIds'
              /\ Parses(targets'[index_file])
              /\ req[w].new_id \in Range(targets'[index_file][1])
              /\ i \notin Range(targets'[index_file][1])]_vars

\* C13 witness: two requests were served, both returned success, both
\* comments are stored under one target, and the index lists only the id of
\* the one that wrote last.
C13_Witness ==
    /\ Quiet
    /\ accepted = 2
    /\ response.status = 200
    /\ \E i \in StoredIds, j \in StoredIds :
        /\ i /= j
        /\ outcome[i] = 200 /\ outcome[j] = 200
        /\ WrittenIndex(i) = WrittenIndex(j)
        /\ response.body.id = CommentUrl(j)
        /\ ListedIds(WrittenIndex(j)) = <<j>>

\* C14: a create or reply stores its record before it touches the index (no
\* index lists the id while the record is being written), and when its index
\* step then fails (500) in a request that ran alone, the record stays
\* stored as written and no index lists its id.
C14_AppendFaultKeepsRecord ==
    [][\A w \in Workers :
        /\ req[w].pc \in {"post_dump", "reply_dump"}
              => req[w].new_id \notin AllListedIds
        /\ (/\ req[w].pc \in {"post_index_read", "post_index_open", "post_index_dump",
                               "reply_index_read", "reply_index_open", "reply_index_dump"}
            /\ before.solo
            /\ req'[w] = Idle
            /\ response'.status = 500)
           => LET comment_file == CommentFile(req[w].new_id)
              IN /\ comment_file \in DOMAIN comments'
                 /\ comments'[comment_file] = Stored(req[w].comment_data)
                 /\ req[w].new_id \notin AllListedIds']_vars

\* C14 witness: a reply that ran alone failed with 500 after its record was
\* stored; the record is readable and no index lists it.
C14_Witness ==
    /\ SoloResponse("reply_to_comment")
    /\ response.status = 500
    /\ \E i \in StoredIds :
        /\ outcome[i] = 500
        /\ Record(i).inReplyTo /= NoneValue
        /\ GetComment(i).status = 200
        /\ i \notin AllListedIds

\* C15: a rebuild or snapshot that ran alone and reported failure (500) left
\* every index file and the snapshot file with the contents they had when it
\* began.
C15_FailedRepairChangesNothing ==
    (/\ SoloResponse("rebuild_index") \/ SoloResponse("snapshot")
     /\ response.status = 500)
        => (/\ targets = before.targets
            /\ snapshots = before.snapshots)

\* C16: a listing served while the target's index file is unparseable answers
\* the empty collection without error, and a flags read served while the
\* flag file is unparseable answers the empty mapping without error.
C16_MalformedDerivedFileReadsEmpty ==
    /\ (/\ response.op = "get_comments"
        /\ IndexFile(response.args.target_id) \in DOMAIN targets
        /\ ~Parses(targets[IndexFile(response.args.target_id)]))
       => (/\ response.status = 200
           /\ response.body.totalItems = 0
           /\ response.body.orderedItems = <<>>)
    /\ (/\ response.op = "get_flags"
        /\ FlagFile(response.args.ulid_id) \in DOMAIN flags
        /\ ~Parses(flags[FlagFile(response.args.ulid_id)]))
       => (/\ response.status = 200
           /\ response.body = EmptyMap)

\* C17: no reader ever finds an empty or partial comment record: a
\* read-single answers 200 or 404, the parent read of a reply finds the
\* parent or answers 404, and the scan of a rebuild does not fail.
C17_ReadersNeverSeeEmptyRecord ==
    [][/\ response'.op = "get_comment" => response'.status \in {200, 404}
       /\ (response'.op = "reply_to_comment" /\ accepted' /= accepted)
             => response'.status = 404
       /\ response'.op = "rebuild_index" => response'.status = 200]_vars

\* C18: what a snapshot writes equals the index and flag files as they all
\* were at one single moment between its start and its end, whatever runs
\* concurrently.
C18_SnapshotIsPointInTime ==
    [][\A w \in Workers :
        (/\ req[w].pc = "snapshot_dump"
         /\ req'[w] = Idle
         /\ response'.status = 200)
        => PointInTime(req[w].snapshot_data)]_vars

\* C19: once a rebuild that succeeded and every request that overlapped it
\* have finished, every id an index listed when the rebuild began is still
\* listed in that index, and every comment stored when the rebuild began is
\* listed in the index of its target.
C19_RebuildKeepsEarlierEntries ==
    (/\ Quiet
     /\ rebuildFound.known
     /\ rebuildFound.alone
     /\ rebuildFound.status = 200)
        => /\ \A f \in DOMAIN rebuildFound.targets :
                Parses(rebuildFound.targets[f]) =>
                    \A i \in Range(rebuildFound.targets[f][1]) :
                        /\ Parses(targets[f])
                        /\ i \in Range(targets[f][1])
           /\ \A f \in DOMAIN rebuildFound.comments :
                Parses(rebuildFound.comments[f]) =>
                    \E t \in TargetIds :
                        /\ TargetUrl(t) = rebuildFound.comments[f][1].target
                        /\ PathStem(f) \in Range(ListedIds(t))

\* C20: in every reachable state every stored comment whose parent is set
\* names a parent that is stored, and has the target that parent has.
C20_ReplyHasStoredParentWithSameTarget ==
    \A i \in StoredIds :
        Record(i).inReplyTo /= NoneValue =>
            \E p \in StoredIds :
                /\ CommentUrl(p) = Record(i).inReplyTo
                /\ Record(p).target = Record(i).target

\* C21: index entries are never removed by requests served one at a time:
\* when a request of any kind that ran alone has answered, every index file
\* that held a list when the request arrived holds a list again, and every id
\* it listed then is listed in that same file (a rebuild may change the
\* order, it drops no id).
C21_SoloRequestKeepsIndexEntries ==
    (before.solo /\ Quiet) =>
        \A f \in DOMAIN before.targets :
            Parses(before.targets[f]) =>
                /\ f \in DOMAIN targets
                /\ Parses(targets[f])
                /\ Range(before.targets[f][1]) \subseteq Range(targets[f][1])

\* C21 witness: a rebuild that ran alone, third of three requests, has
\* rewritten an index of two ids in another order.
C21_Witness ==
    /\ RebuiltJustNow
    /\ accepted = 3
    /\ \E f \in DOMAIN before.targets :
        /\ Parses(before.targets[f]) /\ Parses(targets[f])
        /\ Len(before.targets[f][1]) = 2
        /\ before.targets[f][1] /= targets[f][1]
        /\ Range(before.targets[f][1]) = Range(targets[f][1])

\* C22: neither repair operation modifies primary or flag data, whatever runs
\* beside it: no step of a rebuild changes a comment file, a flag file or the
\* snapshot file, and the index files a rebuild that runs alone creates or
\* changes are each the index of the target of some stored comment; no step
\* of a snapshot changes a comment, index or flag file, the only file it
\* creates is the snapshot file, and what a snapshot that runs alone writes
\* is the index and flag files as it found them, whatever the snapshot file
\* held before.
C22_RepairsLeavePrimaryAndFlagData ==
    [][\A w \in Workers :
        LET step(op) ==
                \/ InFlight(w) /\ req[w].op = op /\ req'[w] /= req[w]
                \/ ~InFlight(w) /\ req'[w] /= req[w] /\ req'[w].op = op
                \/ FirstFree(w) /\ accepted' /= accepted /\ req' = req
                      /\ response'.op = op
        IN /\ step("rebuild_index") =>
              /\ comments' = comments
              /\ flags' = flags
              /\ snapshots' = snapshots
              /\ before.solo =>
                    \A f \in DOMAIN targets' :
                        (f \notin DOMAIN targets \/ targets'[f] /= targets[f]) =>
                            \E i \in StoredIds :
                                Record(i).target = TargetUrl(IndexedTarget(f))
           /\ step("snapshot") =>
              /\ comments' = comments
              /\ targets' = targets
              /\ flags' = flags
              /\ DOMAIN snapshots' \subseteq DOMAIN snapshots \cup {SNAPSHOT_FILE}
              /\ \A f \in DOMAIN snapshots \ {SNAPSHOT_FILE} :
                    snapshots'[f] = snapshots[f]
              /\ (before.solo /\ req[w].pc = "snapshot_dump") =>
                    snapshots'[SNAPSHOT_FILE] =
                        Stored(AsSnapshot([targets |-> before.targets,
                                           flags |-> before.flags]))]_vars

\* C22 witness: a rebuild that ran alone has written an index file while a
\* flag file or the snapshot file exists; comments, flags and snapshot are as
\* the rebuild found them.
C22_Witness ==
    /\ RebuiltJustNow
    /\ targets /= before.targets
    /\ DOMAIN flags /= {} \/ DOMAIN snapshots /= {}
    /\ flags = before.flags
    /\ snapshots = before.snapshots
    /\ comments = before.comments

\* C23: the Document Store is never subject to a lost update, under any
\* interleaving: no comment file is ever removed; a file that holds a record
\* holds the record of its own id (never another comment's), with the
\* creation time, parent and target it had before; when an edit completes,
\* the file holds a record, either this edit's or the one another edit
\* stored meanwhile; and once every request has finished, every comment file
\* holds a record.
C23_NoLostUpdateInDocumentStore ==
    [][/\ \A f \in DOMAIN comments :
            /\ f \in DOMAIN comments'
            /\ (Parses(comments[f]) /\ Parses(comments'[f])) =>
                   /\ comments'[f][1].published = comments[f][1].published
                   /\ comments'[f][1].inReplyTo = comments[f][1].inReplyTo
                   /\ comments'[f][1].target = comments[f][1].target
       /\ \A f \in DOMAIN comments' :
            Parses(comments'[f]) => comments'[f][1].id = CommentUrl(PathStem(f))
       /\ \A w \in Workers :
            (req[w].pc = "edit_dump" /\ req'[w] = Idle) =>
                LET comment_file == CommentFile(req[w].args.ulid_id)
                IN /\ Parses(comments'[comment_file])
                   /\ \/ comments'[comment_file][1] = req[w].comment_data
                      \/ /\ Parses(comments[comment_file])
                         /\ comments'[comment_file][1] = comments[comment_file][1]
       /\ Quiet' => \A f \in DOMAIN comments' : Parses(comments'[f])]_vars

====
